---- MODULE Spec2Model ----
(***************************************************************************)
(* A model of pc_cleaner_organizer.py: the Classifier/Mover                *)
(* (organize_files, with get_file_hash) and the Temp Purger                *)
(* (clean_temp_files).  File names are sequences of one-character strings, *)
(* so that os.path.splitext, str.lower and the "_<counter>" renaming are   *)
(* computed as the code computes them.  The file system is case-sensitive. *)
(***************************************************************************)
EXTENDS Integers, Sequences, FiniteSets, TLC

(***************************************************************************)
(* Bounds of the model.                                                    *)
(***************************************************************************)
\* regular files directly in source_dir before the first run
MaxFiles == 2
\* calls of organize_files in one behaviour
MaxRuns == 2

(***************************************************************************)
(* Characters, names and the pure string functions.                        *)
(***************************************************************************)
UpperChars == <<"A","B","C","D","E","F","G","H","I","J","K","L","M",
                "N","O","P","Q","R","S","T","U","V","W","X","Y","Z">>
LowerChars == <<"a","b","c","d","e","f","g","h","i","j","k","l","m",
                "n","o","p","q","r","s","t","u","v","w","x","y","z">>

\* the lower-case letter of each upper-case letter
ToLower == [c \in { UpperChars[i] : i \in 1..26 } |->
              LowerChars[CHOOSE i \in 1..26 : UpperChars[i] = c]]

\* str.lower() on one character
LowerChar(ch) == IF ch \in DOMAIN ToLower THEN ToLower[ch] ELSE ch

\* str.lower()
Lower(s) == [i \in 1..Len(s) |-> LowerChar(s[i])]

Digits == <<"0","1","2","3","4","5","6","7","8","9">>

\* str(counter) of the f-string at line 92, for counter >= 0
RECURSIVE Str(_)
Str(n) == IF n < 10 THEN <<Digits[n + 1]>>
          ELSE Str(n \div 10) \o <<Digits[(n % 10) + 1]>>

\* the index of the last "." of p, 0 when there is none (p.rfind(extsep))
RDot(p) == IF \E i \in 1..Len(p) : p[i] = "."
           THEN CHOOSE i \in 1..Len(p) :
                    p[i] = "." /\ \A j \in (i+1)..Len(p) : p[j] # "."
           ELSE 0

\* os.path.splitext(filename): <<base, ext>>.  The extension starts at the
\* last dot, unless only dots precede it (a hidden file such as ".rc").
Splitext(p) ==
    LET d == RDot(p) IN
    IF d > 0 /\ \E i \in 1..(d-1) : p[i] # "."
    THEN <<SubSeq(p, 1, d-1), SubSeq(p, d, Len(p))>>
    ELSE <<p, <<>> >>

(***************************************************************************)
(* FILE_CATEGORIES                                                         *)
(***************************************************************************)
Images    == <<"I","m","a","g","e","s">>
Documents == <<"D","o","c","u","m","e","n","t","s">>
Videos    == <<"V","i","d","e","o","s">>
Music     == <<"M","u","s","i","c">>
Archives  == <<"A","r","c","h","i","v","e","s">>
Others    == <<"O","t","h","e","r","s">>

\* the dict in its declared (iteration) order
FILE_CATEGORIES ==
    << [cat |-> Images,
        exts |-> { <<".","j","p","g">>, <<".","j","p","e","g">>,
                   <<".","p","n","g">>, <<".","g","i","f">>,
                   <<".","b","m","p">> }],
       [cat |-> Documents,
        exts |-> { <<".","p","d","f">>, <<".","d","o","c">>,
                   <<".","d","o","c","x">>, <<".","t","x","t">>,
                   <<".","x","l","s","x">> }],
       [cat |-> Videos,
        exts |-> { <<".","m","p","4">>, <<".","m","k","v">>,
                   <<".","a","v","i">> }],
       [cat |-> Music,
        exts |-> { <<".","m","p","3">>, <<".","w","a","v">> }],
       [cat |-> Archives,
        exts |-> { <<".","z","i","p">>, <<".","r","a","r">>,
                   <<".","t","a","r">> }],
       [cat |-> Others, exts |-> {}] >>

\* mutant of FileExt: the extension is not lower-cased
FileExt_NoLower(filename) == Splitext(filename)[2]

\* line 63: the lower-cased extension of a file name
FileExt(filename) == Lower(Splitext(filename)[2])

\* lines 64-68: the first category whose list holds the extension
CategoryOf(filename) ==
    LET hits == { i \in 1..Len(FILE_CATEGORIES) :
                    FileExt(filename) \in FILE_CATEGORIES[i].exts } IN
    IF hits = {} THEN Others
    ELSE FILE_CATEGORIES[CHOOSE i \in hits : \A j \in hits : i <= j].cat


(***************************************************************************)
(* The file system under source_dir.                                       *)
(*   top : the entries directly in source_dir, name -> entry               *)
(*   sub : the content of each category folder that exists,                *)
(*         category name -> (name -> entry)                                *)
(* An entry is a record [kind, id, content]; id tells two files of the     *)
(* same name apart, content stands for the bytes of a regular file.        *)
(***************************************************************************)
VARIABLES
    source_dir,         \* "absent", "dir" or "file": what the path names
    top, sub,
    io_faults,          \* whether file-system calls may fail in this world
    pc,                 \* "idle", "loop", "returned" or "raised"
    todo,               \* the regular files of os.listdir still to be visited
    delete_duplicates,  \* the flag of the running call
    file_hashes,        \* hash -> path of the first file seen with it
    moved_count, duplicate_count,
    result,             \* the pair returned, when pc = "returned"
    log,                \* what the running call did, one record per entry
    fs0,                \* the tree when the running call started
    run,                \* calls started so far
    prev                \* how the previous call ended: whether it returned,
                        \* how many files it listed, moved and deleted

(***************************************************************************)
(* The temp locations and the state of clean_temp_files.  A path is a      *)
(* sequence: <<location, "d", ..., "f">>.                                  *)
(***************************************************************************)
VARIABLES
    system,             \* platform.system()
    tdirs,              \* the directories that exist under the temp locations
    tfiles,             \* the files that exist there, path -> size
    cpc,                \* "idle", "walk" or "returned"
    answer,             \* what the user typed at the prompt
    locs,               \* the temp locations still to be walked
    work,               \* what is left of the walk of the current location
    deleted_count, total_size,
    cresult,            \* the pair returned, when cpc = "returned"
    visited,            \* files the loop at line 124 has been through
    counted,            \* files added to deleted_count
    rmtried,            \* directories handed to shutil.rmtree
    tfs0                \* the temp locations when the call started

tempVars == <<system, tdirs, tfiles, cpc, answer, locs, work, deleted_count,
              total_size, cresult, visited, counted, rmtried, tfs0>>

orgVars == <<source_dir, top, sub, io_faults, pc, todo, delete_duplicates,
             file_hashes, moved_count, duplicate_count, result, log, fs0,
             run, prev>>

vars == <<orgVars, tempVars>>

FileEntry(name, gen, c) == [kind |-> "file", id |-> <<name, gen>>, content |-> c]
DirEntry(name) == [kind |-> "dir", id |-> <<name, 0>>, content |-> 0]

\* a function without / with one key
Without(f, k) == [x \in DOMAIN f \ {k} |-> f[x]]
With(f, k, v) == [x \in DOMAIN f \cup {k} |-> IF x = k THEN v ELSE f[x]]

EmptyDir == [x \in {} |-> 0]

\* os.path.exists / os.path.isfile on an entry of a directory
Exists(dir, name) == name \in DOMAIN dir
IsFile(dir, name) == name \in DOMAIN dir /\ dir[name].kind = "file"
IsDir(dir, name) == name \in DOMAIN dir /\ dir[name].kind = "dir"

(***************************************************************************)
(* The names the model draws from.                                         *)
(***************************************************************************)
n_a_jpg   == <<"a",".","j","p","g">>
n_a_JPG   == <<"a",".","J","P","G">>
n_a_1_jpg == <<"a","_","1",".","j","p","g">>
n_b_txt   == <<"b",".","t","x","t">>
n_c       == <<"c">>
n_rc      == <<".","r","c">>
n_v_MkV   == <<"v",".","M","k","V">>
n_m_mp3   == <<"m",".","m","p","3">>
n_z_tar   == <<"z",".","t","a","r">>
n_tar_gz  == <<"n",".","t","a","r",".","g","z">>
n_dot     == <<"e",".">>
n_docs    == <<"d","o","c","s">>

\* regular files that may lie together in source_dir; one is named like a
\* category
FileNames == {n_a_jpg, n_a_JPG, n_c, Others}
\* regular files that may lie alone in source_dir
SoloNames == FileNames \cup {n_b_txt, n_rc, n_v_MkV, n_m_mp3, n_z_tar,
                             n_tar_gz, n_dot, Images}
\* a plain subdirectory that may lie in source_dir
PlainDirs == {n_docs}
\* the category folder that earlier use may have left in source_dir, and
\* what it holds
PreLayouts == { [dir |-> <<>>, names |-> {}],
                [dir |-> Images, names |-> {n_a_jpg}],
                [dir |-> Images, names |-> {n_a_jpg, n_a_1_jpg}],
                [dir |-> Others, names |-> {n_c}] }
\* the contents a file may hold: the code only compares digests for
\* equality, so two values give every case (same bytes, different bytes)
Contents == {1, 2}

(***************************************************************************)
(* get_file_hash (lines 35-45): the digest of the content, None on any     *)
(* exception.  Distinct contents have distinct digests.                    *)
(***************************************************************************)
None == <<"None">>
Md5(content) == <<"md5", content>>
get_file_hash(entry, read_ok) == IF read_ok THEN Md5(entry.content) ELSE None

(***************************************************************************)
(* Lines 86-93: the destination name in the category folder.               *)
(***************************************************************************)
RECURSIVE NextFree(_, _, _, _)
NextFree(dir, base, ext, counter) ==
    LET cand == base \o <<"_">> \o Str(counter) \o ext IN
    IF Exists(dir, cand) THEN NextFree(dir, base, ext, counter + 1) ELSE cand

\* mutant of DestName: the destination is never renamed
DestName_Overwrite(dir, filename) == filename

DestName(dir, filename) ==
    IF Exists(dir, filename)
    THEN NextFree(dir, Splitext(filename)[1], Splitext(filename)[2], 1)
    ELSE filename

\* hashed: "no" when get_file_hash was not called, "failed" when it gave
\* None, "ok" when it gave a digest
Event(filename, what, hashed, cat, dest) ==
    [name |-> filename, entry |-> top[filename], what |-> what,
     hashed |-> hashed, cat |-> cat, dest |-> dest]

\* line 72: os.makedirs(category_dir, exist_ok=True)
Makedirs(category, mk_ok) ==
    IF IsDir(top, category) THEN [ok |-> TRUE, top |-> top, sub |-> sub]
    ELSE IF Exists(top, category) \/ ~mk_ok
         THEN [ok |-> FALSE, top |-> top, sub |-> sub]
         ELSE [ok |-> TRUE, top |-> With(top, category, DirEntry(category)),
               sub |-> With(sub, category, EmptyDir)]

\* mutant of Move: the file is copied and its source is left in place
Move_Copy(t, s, filename, category, dest) ==
    [top |-> t,
     sub |-> With(s, category, With(s[category], dest, t[filename]))]

\* line 96: shutil.move(source_path, dest_path), when it succeeds; a file
\* already at dest_path is replaced, as os.rename does
Move(t, s, filename, category, dest) ==
    [top |-> Without(t, filename),
     sub |-> With(s, category, With(s[category], dest, t[filename]))]

\* mutant of IsDuplicate: any file that could be hashed counts as one
IsDuplicate_AnyHash(file_hash, hashes) == file_hash # None

\* line 77: a duplicate is a file whose hash is already in the index
IsDuplicate(file_hash, hashes) == file_hash # None /\ file_hash \in DOMAIN hashes

(***************************************************************************)
(* One iteration of the loop at line 59 on a regular file `filename`       *)
(* (lines 62-101), as a function of                                        *)
(* the state and of the outcome of each file-system call it makes.         *)
(* The result tells the new tree, counters and index, how the iteration    *)
(* ended ("next": on to the next entry; "raise": an exception left the     *)
(* call) and the event to log.                                             *)
(***************************************************************************)
Iteration(filename, mk_ok, hash_ok, rm_ok, mv_ok) ==
    LET same == [top |-> top, sub |-> sub, hashes |-> file_hashes,
                 moved |-> moved_count, dups |-> duplicate_count,
                 how |-> "next",
                 ev |-> Event(filename, "none", "no", <<>>, <<>>)]
        category == CategoryOf(filename)
        mk == Makedirs(category, mk_ok)
        file_hash == IF delete_duplicates
                     THEN get_file_hash(top[filename], hash_ok) ELSE None
        hashes1 == IF file_hash # None
                   THEN With(file_hashes, file_hash, filename) ELSE file_hashes
        dest == DestName(mk.sub[category], filename)
        hashed == IF ~delete_duplicates THEN "no"
                  ELSE IF file_hash = None THEN "failed" ELSE "ok"
    IN
    IF ~mk.ok THEN
        [same EXCEPT !.how = "raise",
                     !.ev = Event(filename, "makedirs_raised", "no", category, <<>>)]
    ELSE IF delete_duplicates /\ IsDuplicate(file_hash, file_hashes) THEN
        IF rm_ok THEN
            [same EXCEPT !.top = Without(mk.top, filename), !.sub = mk.sub,
                         !.dups = duplicate_count + 1,
                         !.ev = Event(filename, "deleted", hashed, category, <<>>)]
        ELSE
            [same EXCEPT !.top = mk.top, !.sub = mk.sub, !.how = "raise",
                         !.ev = Event(filename, "remove_raised", hashed, category, <<>>)]
    ELSE IF mv_ok THEN
        [same EXCEPT !.top = Move(mk.top, mk.sub, filename, category, dest).top,
                     !.sub = Move(mk.top, mk.sub, filename, category, dest).sub,
                     !.hashes = hashes1, !.moved = moved_count + 1,
                     !.ev = Event(filename, "moved", hashed, category, dest)]
    ELSE
        [same EXCEPT !.top = mk.top, !.sub = mk.sub, !.hashes = hashes1,
                     !.ev = Event(filename, "move_failed", hashed, category, dest)]

(***************************************************************************)
(* Initial states: source_dir is missing, is a regular file, or is a       *)
(* directory holding up to MaxFiles regular files, possibly a plain        *)
(* subdirectory, and possibly a category folder left by earlier use.       *)
(* A directory of at most one file draws it from SoloNames, with or        *)
(* without the plain subdirectory; a directory of several files draws      *)
(* them from FileNames and holds the plain subdirectory.                   *)
(***************************************************************************)
Tree(names, content, dirs, pre) ==
    [top |-> [n \in names \cup dirs \cup (IF pre.dir # <<>> THEN {pre.dir} ELSE {}) |->
                IF n \in names THEN FileEntry(n, 0, content[n]) ELSE DirEntry(n)],
     sub |-> IF pre.dir # <<>>
             THEN [c \in {pre.dir} |-> [n \in pre.names |-> FileEntry(n, -1, 1)]]
             ELSE EmptyDir]

OrgInit ==
    /\ source_dir \in {"absent", "dir", "file"}
    /\ \E names \in SUBSET SoloNames, dirs \in SUBSET PlainDirs,
          pre \in PreLayouts :
         /\ Cardinality(names) <= MaxFiles
         /\ Cardinality(names) > 1 => names \subseteq FileNames /\ dirs = PlainDirs
         /\ pre.dir \notin names
         /\ source_dir # "dir" => names = {} /\ dirs = {} /\ pre.dir = <<>>
         /\ \E content \in [names -> Contents] :
              /\ top = Tree(names, content, dirs, pre).top
              /\ sub = Tree(names, content, dirs, pre).sub
    /\ pc = "idle"
    /\ todo = {}
    /\ delete_duplicates = FALSE
    /\ file_hashes = EmptyDir
    /\ moved_count = 0
    /\ duplicate_count = 0
    /\ result = <<0, 0>>
    /\ log = <<>>
    /\ fs0 = [top |-> top, sub |-> sub]
    /\ run = 0
    /\ prev = [returned |-> FALSE, listed |-> 0, moved |-> 0, dups |-> 0]

(***************************************************************************)
(* organize_files(source_dir, delete_duplicates)                           *)
(***************************************************************************)
\* mutant of RegularFiles: os.path.isfile is not asked
RegularFiles_All(dir) == DOMAIN dir

\* the entries of os.listdir that os.path.isfile accepts (lines 59-61).  An
\* iteration on any other entry does nothing, and no entry of the listing
\* changes its kind before its turn, so the filter is applied here.
RegularFiles(dir) == { n \in DOMAIN dir : IsFile(dir, n) }

\* mutant of StartOutcome: the existence check is missing, so os.listdir
\* raises on a missing source_dir as well
StartOutcome_NoCheck(kind) == IF kind = "dir" THEN "loop" ELSE "raised"

\* lines 49-52 and 59: a missing source_dir returns at once; os.listdir of
\* a path that is no directory raises
StartOutcome(kind) ==
    IF kind = "absent" THEN "returned"
    ELSE IF kind = "file" THEN "raised" ELSE "loop"

\* lines 47-59: the existence check, the locals, and os.listdir
OrganizeStart(dd) ==
    /\ pc = "idle"
    /\ run < MaxRuns
    /\ run' = run + 1
    /\ delete_duplicates' = dd
    /\ file_hashes' = EmptyDir
    /\ moved_count' = 0
    /\ duplicate_count' = 0
    /\ log' = <<>>
    /\ fs0' = [top |-> top, sub |-> sub]
    /\ pc' = StartOutcome(source_dir)
    /\ todo' = IF StartOutcome(source_dir) = "loop" THEN RegularFiles(top) ELSE {}
    /\ result' = <<0, 0>>
    /\ UNCHANGED <<source_dir, top, sub, io_faults, prev>>
    /\ UNCHANGED tempVars

\* lines 59-101: one iteration; os.listdir gives the entries in any order,
\* and each file-system call of the iteration may fail when io_faults
OrganizeStep ==
    /\ pc = "loop"
    /\ \E filename \in todo :
       \* of os.remove and shutil.move an iteration makes one call at most
       \E mk_ok, hash_ok, op_ok \in (IF io_faults THEN BOOLEAN ELSE {TRUE}) :
         LET r == Iteration(filename, mk_ok, hash_ok, op_ok, op_ok) IN
         /\ top' = r.top
         /\ sub' = r.sub
         /\ file_hashes' = r.hashes
         /\ moved_count' = r.moved
         /\ duplicate_count' = r.dups
         /\ log' = Append(log, r.ev)
         /\ todo' = todo \ {filename}
         /\ pc' = IF r.how = "raise" THEN "raised" ELSE "loop"
    /\ UNCHANGED <<source_dir, io_faults, delete_duplicates, result, fs0,
                   run, prev>>
    /\ UNCHANGED tempVars

\* line 103
OrganizeReturn ==
    /\ pc = "loop"
    /\ todo = {}
    /\ pc' = "returned"
    /\ result' = <<moved_count, duplicate_count>>
    /\ UNCHANGED <<source_dir, top, sub, io_faults, todo, delete_duplicates,
                   file_hashes, moved_count, duplicate_count, log, fs0, run,
                   prev>>
    /\ UNCHANGED tempVars

\* the program is started again (lines 198-211: by hand or by the schedule)
NextRun ==
    /\ pc \in {"returned", "raised"}
    /\ run < MaxRuns
    /\ pc' = "idle"
    /\ prev' = [returned |-> pc = "returned",
                listed |-> Cardinality({ n \in DOMAIN fs0.top :
                                           fs0.top[n].kind = "file" }),
                moved |-> moved_count, dups |-> duplicate_count]
    /\ UNCHANGED <<source_dir, top, sub, io_faults, todo, delete_duplicates,
                   file_hashes, moved_count, duplicate_count, result, log,
                   fs0, run>>
    /\ UNCHANGED tempVars

OrgNext ==
    \/ \E dd \in BOOLEAN : OrganizeStart(dd)
    \/ OrganizeStep
    \/ OrganizeReturn
    \/ NextRun


(***************************************************************************)
(* TEMP_DIRS (lines 29-33) and the temp trees of the model.                *)
(***************************************************************************)
\* depth of the chain of subdirectories under the first temp location
MaxDepth == 2

TEMP_DIRS ==
    [Windows |-> <<"%temp%", "%appdata%\\Microsoft\\Windows\\Recent">>,
     Linux   |-> <<"/tmp", "~/.cache">>,
     Darwin  |-> <<"~/Library/Caches", "/private/var/tmp">>]

\* platform.system(): the three known families and one the table lacks
Systems == {"Windows", "Linux", "Darwin", "Java"}

\* line 108: TEMP_DIRS.get(system, [])
temp_dirs(sys) == IF sys \in DOMAIN TEMP_DIRS THEN TEMP_DIRS[sys] ELSE <<>>

\* where the temp trees of a machine lie: a machine of an unknown family
\* has the Linux ones
Locations(sys) == IF sys \in DOMAIN TEMP_DIRS THEN TEMP_DIRS[sys] ELSE TEMP_DIRS.Linux

\* the directory k levels below a location, the file of a directory, the
\* subdirectory of a directory
ChainDir(loc, k) == <<loc>> \o [i \in 1..k |-> "d"]
FileOf(dir) == dir \o <<"f">>
SubdirOf(dir) == dir \o <<"d">>

\* path p lies in the subtree of directory d (d itself included)
InSubtree(p, d) == Len(p) >= Len(d) /\ SubSeq(p, 1, Len(d)) = d

\* what the user may type at the prompt
Answers == { <<"y">>, <<"Y">>, <<"n">>, <<"N">>, <<"y","e","s">>, <<>>,
             <<"y"," ">> }

\* mutant of Confirmed: any answer that starts with 'y' is taken
Confirmed_Prefix(ans) == Len(ans) >= 1 /\ Lower(ans)[1] = "y"

\* lines 114-115: the call goes on only after the answer 'y', in any case
Confirmed(ans) == Lower(ans) = <<"y">>

(***************************************************************************)
(* os.walk(temp_dir, topdown=False) with the body of the loop at line 123: *)
(* the file deletions and directory removals in the order they are made.   *)
(* The triple of a directory comes after the triples of its subdirectories;*)
(* its files (lines 124-133) come before its subdirectories (134-140).     *)
(***************************************************************************)
\* mutant of WalkBottomUp: the walk is top-down
RECURSIVE WalkBottomUp_TopDown(_, _, _)
WalkBottomUp_TopDown(root, dirs, files) ==
    LET d == SubdirOf(root)
        f == FileOf(root) IN
    (IF f \in DOMAIN files THEN << [op |-> "file", path |-> f] >> ELSE <<>>)
    \o (IF d \in dirs THEN << [op |-> "dir", path |-> d] >> ELSE <<>>)
    \o (IF d \in dirs THEN WalkBottomUp_TopDown(d, dirs, files) ELSE <<>>)

RECURSIVE WalkBottomUp(_, _, _)
WalkBottomUp(root, dirs, files) ==
    LET d == SubdirOf(root)
        f == FileOf(root) IN
    (IF d \in dirs THEN WalkBottomUp(d, dirs, files) ELSE <<>>)
    \o (IF f \in DOMAIN files THEN << [op |-> "file", path |-> f] >> ELSE <<>>)
    \o (IF d \in dirs THEN << [op |-> "dir", path |-> d] >> ELSE <<>>)

(***************************************************************************)
(* Lines 125-133: os.path.getsize, os.remove and the two counters, inside  *)
(* one try.  Any exception is logged and the loop goes on.                 *)
(***************************************************************************)
RemoveFile(file_path, size_ok, rm_ok) ==
    IF file_path \in DOMAIN tfiles /\ size_ok /\ rm_ok
    THEN [files |-> Without(tfiles, file_path),
          count |-> deleted_count + 1,
          size |-> total_size + tfiles[file_path],
          counted |-> counted \cup {file_path}]
    ELSE [files |-> tfiles, count |-> deleted_count, size |-> total_size,
          counted |-> counted]

(***************************************************************************)
(* Line 137: shutil.rmtree(dir_path, ignore_errors=True).  Each unlink and *)
(* each rmdir inside may fail; a directory goes only when it is empty.     *)
(* unlink_ok and rmdir_ok are the files and directories whose removal      *)
(* would succeed.                                                          *)
(***************************************************************************)
RECURSIVE Removable(_, _, _)
Removable(dir, files1, rmdir_ok) ==
    /\ dir \in rmdir_ok
    /\ FileOf(dir) \notin DOMAIN files1
    /\ SubdirOf(dir) \in tdirs => Removable(SubdirOf(dir), files1, rmdir_ok)

Rmtree(dir_path, unlink_ok, rmdir_ok) ==
    LET files1 == [p \in { q \in DOMAIN tfiles :
                            ~(InSubtree(q, dir_path) /\ q \in unlink_ok) } |->
                      tfiles[p]]
        dirs1 == { d \in tdirs :
                     ~(InSubtree(d, dir_path) /\ Removable(d, files1, rmdir_ok)) }
    IN
    IF dir_path \in tdirs
    THEN [files |-> files1, dirs |-> dirs1]
    ELSE [files |-> tfiles, dirs |-> tdirs]

(***************************************************************************)
(* Initial states: the first temp location, when it exists, holds a chain  *)
(* of up to MaxDepth subdirectories, each directory with or without a      *)
(* file; the second, when it exists, holds at most one file.               *)
(***************************************************************************)
SizeOf(path) == Len(path) - 1

TempInit ==
    /\ system \in Systems
    /\ \E k \in -1..MaxDepth, has2 \in BOOLEAN :
         LET loc1 == Locations(system)[1]
             loc2 == Locations(system)[2]
             dirs == { ChainDir(loc1, i) : i \in 0..k }
                     \cup (IF has2 THEN {<<loc2>>} ELSE {}) IN
         /\ tdirs = dirs
         /\ \E withFile \in SUBSET dirs :
              tfiles = [p \in { FileOf(d) : d \in withFile } |-> SizeOf(p)]
    /\ cpc = "idle"
    /\ answer = <<>>
    /\ locs = <<>>
    /\ work = <<>>
    /\ deleted_count = 0
    /\ total_size = 0
    /\ cresult = <<0, 0>>
    /\ visited = {}
    /\ counted = {}
    /\ rmtried = {}
    /\ tfs0 = [dirs |-> tdirs, files |-> tfiles]

(***************************************************************************)
(* clean_temp_files()                                                      *)
(***************************************************************************)
\* lines 105-117: the prompt
CleanStart(ans) ==
    /\ cpc = "idle"
    /\ answer' = ans
    /\ IF Confirmed(ans)
       THEN cpc' = "walk" /\ locs' = temp_dirs(system)
       ELSE cpc' = "returned" /\ locs' = <<>>
    /\ cresult' = <<0, 0>>
    /\ UNCHANGED <<system, tdirs, tfiles, work, deleted_count, total_size,
                   visited, counted, rmtried, tfs0>>
    /\ UNCHANGED orgVars

\* lines 120-123: the next temp location, skipped when it does not exist
CleanNextDir ==
    /\ cpc = "walk"
    /\ work = <<>>
    /\ locs # <<>>
    /\ locs' = Tail(locs)
    /\ work' = IF <<Head(locs)>> \in tdirs
               THEN WalkBottomUp(<<Head(locs)>>, tdirs, tfiles) ELSE <<>>
    /\ UNCHANGED <<system, tdirs, tfiles, cpc, answer, deleted_count,
                   total_size, cresult, visited, counted, rmtried, tfs0>>
    /\ UNCHANGED orgVars

\* lines 124-133: one file
CleanFile ==
    /\ cpc = "walk"
    /\ work # <<>>
    /\ Head(work).op = "file"
    /\ \E size_ok, rm_ok \in BOOLEAN :
         LET r == RemoveFile(Head(work).path, size_ok, rm_ok) IN
         /\ tfiles' = r.files
         /\ deleted_count' = r.count
         /\ total_size' = r.size
         /\ counted' = r.counted
    /\ visited' = visited \cup {Head(work).path}
    /\ work' = Tail(work)
    /\ UNCHANGED <<system, tdirs, cpc, answer, locs, cresult, rmtried, tfs0>>
    /\ UNCHANGED orgVars

\* lines 134-140: one subdirectory
CleanDir ==
    /\ cpc = "walk"
    /\ work # <<>>
    /\ Head(work).op = "dir"
    /\ \E unlink_ok \in SUBSET { p \in DOMAIN tfiles : InSubtree(p, Head(work).path) },
          rmdir_ok \in SUBSET { d \in tdirs : InSubtree(d, Head(work).path) } :
         LET r == Rmtree(Head(work).path, unlink_ok, rmdir_ok) IN
         /\ tfiles' = r.files
         /\ tdirs' = r.dirs
    /\ rmtried' = rmtried \cup {Head(work).path}
    /\ work' = Tail(work)
    /\ UNCHANGED <<system, cpc, answer, locs, deleted_count, total_size,
                   cresult, visited, counted, tfs0>>
    /\ UNCHANGED orgVars

\* line 142
CleanReturn ==
    /\ cpc = "walk"
    /\ work = <<>>
    /\ locs = <<>>
    /\ cpc' = "returned"
    /\ cresult' = <<deleted_count, total_size>>
    /\ UNCHANGED <<system, tdirs, tfiles, answer, locs, work, deleted_count,
                   total_size, visited, counted, rmtried, tfs0>>
    /\ UNCHANGED orgVars

TempNext ==
    \/ \E ans \in Answers : CleanStart(ans)
    \/ CleanNextDir
    \/ CleanFile
    \/ CleanDir
    \/ CleanReturn

(***************************************************************************)
(* The specifications.  run_automation (lines 144-155) calls the two       *)
(* components one after the other and they share no state, so each is      *)
(* checked with the other at rest.                                         *)
(***************************************************************************)
TempAtRest ==
    /\ system = "Linux"
    /\ tdirs = {}
    /\ tfiles = EmptyDir
    /\ cpc = "idle"
    /\ answer = <<>>
    /\ locs = <<>>
    /\ work = <<>>
    /\ deleted_count = 0
    /\ total_size = 0
    /\ cresult = <<0, 0>>
    /\ visited = {}
    /\ counted = {}
    /\ rmtried = {}
    /\ tfs0 = [dirs |-> tdirs, files |-> tfiles]

OrgAtRest ==
    /\ OrgInit
    /\ source_dir = "absent"
    /\ io_faults = TRUE

InitOrg == OrgInit /\ io_faults = TRUE /\ TempAtRest
InitOrgNoFault == OrgInit /\ io_faults = FALSE /\ TempAtRest
InitTemp == TempInit /\ OrgAtRest

\* organize_files where file-system calls may fail
OrgSpec == InitOrg /\ [][OrgNext]_vars
\* organize_files where no file-system call fails for a reason of its own
OrgSpecNoFault == InitOrgNoFault /\ [][OrgNext]_vars
\* clean_temp_files
TempSpec == InitTemp /\ [][TempNext]_vars


(***************************************************************************)
(* Vocabulary of the properties of organize_files.  These definitions read *)
(* the trees and the log only; what a name's category and its renamings    *)
(* should be is written out name by name.                                  *)
(***************************************************************************)
\* the regular files source_dir held when the running call started
Listed0 == { n \in DOMAIN fs0.top : fs0.top[n].kind = "file" }

\* where an entry lies now, as <<folder, name>>; folder <<>> is source_dir
Places(e) ==
    { << <<>>, n >> : n \in { m \in DOMAIN top : top[m] = e } }
    \cup UNION { { <<c, n>> : n \in { m \in DOMAIN sub[c] : sub[c][m] = e } } :
                 c \in DOMAIN sub }

Gone(e) == Places(e) = {}
AtTopLevel(n) == << <<>>, n >> \in Places(fs0.top[n])
Finished == run >= 1 /\ pc \in {"returned", "raised"}
Did(n, what) == \E i \in 1..Len(log) : log[i].name = n /\ log[i].what = what

\* the category each name of the model belongs to, by FILE_CATEGORIES
ExpectedCategory(n) ==
    CASE n \in {n_a_jpg, n_a_JPG} -> Images
      [] n = n_b_txt -> Documents
      [] n = n_v_MkV -> Videos
      [] n = n_m_mp3 -> Music
      [] n = n_z_tar -> Archives
      [] OTHER -> Others

\* the names a file goes by in its category folder, in the order tried
ExpectedNames(n) ==
    CASE n = n_a_jpg -> << n_a_jpg, <<"a","_","1",".","j","p","g">>,
                           <<"a","_","2",".","j","p","g">>,
                           <<"a","_","3",".","j","p","g">> >>
      [] n = n_c -> << n_c, <<"c","_","1">>, <<"c","_","2">> >>
      [] OTHER -> << n >>

FirstFree(cands, taken) ==
    cands[CHOOSE i \in 1..Len(cands) :
            cands[i] \notin taken /\ \A j \in 1..(i-1) : cands[j] \in taken]

(***************************************************************************)
(* C1 as stated: after a run without duplicate deletion every file that    *)
(* was directly in source_dir exists exactly once, in the subfolder of its *)
(* category, and none is left at the top level.                            *)
(***************************************************************************)
C1_AllFilesRelocated ==
    (pc = "returned" /\ run >= 1 /\ source_dir = "dir" /\ ~delete_duplicates) =>
        \A n \in Listed0 :
            /\ Cardinality(Places(fs0.top[n])) = 1
            /\ \E p \in Places(fs0.top[n]) : p[1] = ExpectedCategory(n)

(***************************************************************************)
(* C1 amended: after a run without duplicate deletion, however it ended,   *)
(* every file that was directly in source_dir exists exactly once: in the  *)
(* subfolder of its category when its move succeeded, and otherwise still  *)
(* at the top level under its own name.  No file is lost.                  *)
(***************************************************************************)
C1_EachFileOnceInPlace ==
    (Finished /\ ~delete_duplicates) =>
        \A n \in Listed0 :
            /\ Cardinality(Places(fs0.top[n])) = 1
            /\ IF Did(n, "moved")
               THEN \E p \in Places(fs0.top[n]) : p[1] = ExpectedCategory(n)
               ELSE AtTopLevel(n)

\* a run that moved a.JPG into Images and left another file whose move failed
C1_Witness ==
    /\ pc = "returned" /\ ~delete_duplicates
    /\ Did(n_a_JPG, "moved")
    /\ \E p \in Places(fs0.top[n_a_JPG]) : p[1] = Images
    /\ \E n \in Listed0 : Did(n, "move_failed")

(***************************************************************************)
(* C2 as stated: with duplicate deletion, a file is deleted iff its hash   *)
(* was computed and equals that of a file hashed earlier in the run; so of *)
(* the files with one content exactly one survives, the first processed;   *)
(* a file whose hashing failed is not deleted and goes on to the move; the *)
(* duplicate count is the number of files deleted.                         *)
(***************************************************************************)
SameContentBefore(i) ==
    \E j \in 1..(i-1) : /\ log[j].hashed = "ok"
                        /\ log[j].entry.content = log[i].entry.content

C2_ExactlyOneSurvives ==
    (pc = "returned" /\ delete_duplicates /\ source_dir = "dir") =>
        /\ \A i \in 1..Len(log) :
              Gone(log[i].entry) <=> (log[i].hashed = "ok" /\ SameContentBefore(i))
        /\ \A c \in Contents :
              LET same == { i \in 1..Len(log) : log[i].entry.content = c } IN
              same # {} =>
                  { i \in same : ~Gone(log[i].entry) }
                      = { CHOOSE i \in same : \A j \in same : i <= j }
        /\ \A i \in 1..Len(log) :
              log[i].hashed = "failed" =>
                  ~Gone(log[i].entry) /\ log[i].what \in {"moved", "move_failed"}
        /\ result[2] = Cardinality({ n \in Listed0 : Gone(fs0.top[n]) })

(***************************************************************************)
(* C2 amended: a file is deleted only if its hash was computed and equals  *)
(* that of a file hashed successfully earlier in the run, and at return    *)
(* every such file has been deleted; so of the files with one content the  *)
(* survivors are those whose hashing failed and the first one whose        *)
(* hashing succeeded; a file whose hashing failed is not deleted and goes  *)
(* on to the move; the duplicate count is the number of files deleted.     *)
(***************************************************************************)
C2_DuplicateRule ==
    (delete_duplicates /\ run >= 1) =>
        /\ \A i \in 1..Len(log) :
              Gone(log[i].entry) => (log[i].hashed = "ok" /\ SameContentBefore(i))
        /\ \A i \in 1..Len(log) :
              log[i].hashed = "failed" =>
                  ~Gone(log[i].entry) /\ log[i].what \in {"moved", "move_failed"}
        /\ pc = "returned" =>
              /\ \A i \in 1..Len(log) :
                    (log[i].hashed = "ok" /\ SameContentBefore(i)) => Gone(log[i].entry)
              /\ \A c \in Contents :
                    LET same == { i \in 1..Len(log) : log[i].entry.content = c }
                        ok == { i \in same : log[i].hashed = "ok" } IN
                    { i \in same : ~Gone(log[i].entry) }
                        = (same \ ok) \cup { i \in ok : \A j \in ok : i <= j }
              /\ result[2] = Cardinality({ n \in Listed0 : Gone(fs0.top[n]) })

\* two files of one content: the second is deleted and counted
C2_Witness ==
    /\ pc = "returned" /\ delete_duplicates
    /\ result[2] = 1
    /\ \E i, j \in 1..Len(log) :
          /\ i < j
          /\ log[i].entry.content = log[j].entry.content
          /\ log[i].what = "moved" /\ log[j].what = "deleted"
          /\ Gone(log[j].entry) /\ ~Gone(log[i].entry)

(***************************************************************************)
(* C3: no step replaces or removes an entry of a category folder, and a    *)
(* moved file goes to its own name when that is free and otherwise to      *)
(* <base>_<k><ext> for the smallest k >= 1 that is free.                   *)
(***************************************************************************)
C3_NeverOverwrites ==
    [][ /\ \A c \in DOMAIN sub :
              /\ c \in DOMAIN sub'
              /\ \A n \in DOMAIN sub[c] :
                    n \in DOMAIN sub'[c] /\ sub'[c][n] = sub[c][n]
        /\ (Len(log') > Len(log) /\ log'[Len(log')].what = "moved") =>
              LET ev == log'[Len(log')]
                  taken == IF ev.cat \in DOMAIN sub THEN DOMAIN sub[ev.cat] ELSE {}
              IN  /\ ev.dest = FirstFree(ExpectedNames(ev.name), taken)
                  /\ ev.dest \in DOMAIN sub'[ev.cat]
                  /\ sub'[ev.cat][ev.dest] = ev.entry
      ]_vars

\* a third a.jpg landed at a_2.jpg beside a.jpg and a_1.jpg, both kept
C3_Witness ==
    /\ Did(n_a_jpg, "moved")
    /\ Images \in DOMAIN sub
    /\ {n_a_jpg, n_a_1_jpg, <<"a","_","2",".","j","p","g">>} \subseteq DOMAIN sub[Images]
    /\ sub[Images][<<"a","_","2",".","j","p","g">>] = fs0.top[n_a_jpg]
    /\ sub[Images][n_a_jpg] = fs0.sub[Images][n_a_jpg]

(***************************************************************************)
(* C5 as stated: no failure of a per-item operation leaves organize_files  *)
(* as an exception; the call goes through the whole listing and returns.   *)
(***************************************************************************)
C5_NoFailurePropagates == source_dir = "dir" => pc # "raised"

(***************************************************************************)
(* C6: on a source_dir that does not exist the call returns (0, 0) and the *)
(* tree is as it was; on a directory without regular files it returns      *)
(* (0, 0).                                                                 *)
(***************************************************************************)
C6_MissingOrEmpty ==
    (run >= 1 /\ pc \notin {"idle", "loop"}) =>
        /\ source_dir = "absent" =>
              /\ pc = "returned" /\ result = <<0, 0>>
              /\ top = fs0.top /\ sub = fs0.sub
        /\ (source_dir = "dir" /\ Listed0 = {}) =>
              pc = "returned" /\ result = <<0, 0>>

\* a call with delete_duplicates on a directory that holds a folder only
C6_Witness ==
    /\ pc = "returned" /\ source_dir = "dir" /\ delete_duplicates
    /\ DOMAIN fs0.top = {n_docs}
    /\ result = <<0, 0>>

(***************************************************************************)
(* C7 as stated: the second of two runs in a row (the first one having     *)
(* returned) moves nothing and leaves the tree as the first run left it.   *)
(***************************************************************************)
C7_SecondRunMovesNothing ==
    (run = 2 /\ pc = "returned" /\ prev.returned) =>
        result[1] = 0 /\ top = fs0.top /\ sub = fs0.sub

(***************************************************************************)
(* C7 amended: the second of two runs in a row handles at most the files   *)
(* the first run left at the top level (those whose move failed or that it *)
(* did not reach); when the first run moved or deleted every file it       *)
(* listed, the second returns (0, 0) and leaves the tree as it was; what   *)
(* lies in the category folders is not revisited.                          *)
(***************************************************************************)
C7_SecondRunOnlyLeftovers ==
    (run >= 2 /\ pc = "returned") =>
        LET left == prev.listed - prev.moved - prev.dups IN
        /\ result[1] + result[2] <= left
        /\ left = 0 => result = <<0, 0>> /\ top = fs0.top /\ sub = fs0.sub
        /\ \A c \in DOMAIN fs0.sub :
              /\ c \in DOMAIN sub
              /\ \A n \in DOMAIN fs0.sub[c] :
                    n \in DOMAIN sub[c] /\ sub[c][n] = fs0.sub[c][n]

\* a first run that moved both of its files, and a second that found nothing
C7_Witness ==
    /\ run = 2 /\ pc = "returned"
    /\ prev.listed = 2 /\ prev.moved = 2
    /\ result = <<0, 0>>
    /\ top = fs0.top /\ sub = fs0.sub

(***************************************************************************)
(* C9: every regular file of the listing is handled once and directories   *)
(* are left alone; at return the first count is the number of files moved, *)
(* the second the number deleted, and with the files whose move failed     *)
(* they add up to the number of regular files listed.                      *)
(***************************************************************************)
C9_CountsAddUp ==
    /\ \A i, j \in 1..Len(log) : log[i].name = log[j].name => i = j
    /\ \A i \in 1..Len(log) : log[i].name \in Listed0
    /\ (pc = "returned" /\ source_dir = "dir") =>
          /\ { log[i].name : i \in 1..Len(log) } = Listed0
          /\ result[1] = Cardinality({ n \in Listed0 :
                            \E p \in Places(fs0.top[n]) : p[1] # <<>> })
          /\ result[2] = Cardinality({ n \in Listed0 : Gone(fs0.top[n]) })
          /\ result[1] + result[2]
                + Cardinality({ n \in Listed0 : Did(n, "move_failed") })
                = Cardinality(Listed0)
          /\ \A n \in Listed0 : Did(n, "move_failed") => AtTopLevel(n)
          /\ \A d \in DOMAIN fs0.top :
                fs0.top[d].kind = "dir" => d \in DOMAIN top /\ top[d] = fs0.top[d]

\* one file moved, one whose move failed, and a folder passed over
C9_Witness ==
    /\ pc = "returned"
    /\ result = <<1, 0>>
    /\ Cardinality(Listed0) = 2
    /\ \E n \in Listed0 : Did(n, "move_failed") /\ AtTopLevel(n)
    /\ n_docs \in DOMAIN top


(***************************************************************************)
(* Vocabulary of the properties of clean_temp_files.                       *)
(***************************************************************************)
\* the answers that are 'y' up to case
Yes == { <<"y">>, <<"Y">> }

Untouched == tdirs = tfs0.dirs /\ tfiles = tfs0.files

\* the files that were in a temp location and are there no more
GoneFiles == DOMAIN tfs0.files \ DOMAIN tfiles

RECURSIVE SumSizes(_)
SumSizes(S) ==
    IF S = {} THEN 0
    ELSE LET p == CHOOSE x \in S : TRUE IN tfs0.files[p] + SumSizes(S \ {p})

(***************************************************************************)
(* C4: nothing is deleted, and no deletion is tried, unless the user has   *)
(* answered 'y' or 'Y'; after any other answer the call has returned       *)
(* (0, 0) and every temp location is as it was.                            *)
(***************************************************************************)
C4_NothingBeforeYes ==
    /\ (~Untouched \/ visited # {} \/ rmtried # {}) =>
          (cpc # "idle" /\ answer \in Yes)
    /\ (cpc # "idle" /\ answer \notin Yes) =>
          cpc = "returned" /\ cresult = <<0, 0>> /\ Untouched

\* the answer "yes" is not 'y': the files that were there are all kept
C4_Witness ==
    /\ cpc = "returned"
    /\ answer = <<"y","e","s">>
    /\ Cardinality(DOMAIN tfs0.files) >= 2
    /\ Untouched
    /\ cresult = <<0, 0>>

(***************************************************************************)
(* C8 as stated: after a confirmed run the pair returned is the number of  *)
(* files gone from the temp locations and the sum of their sizes.          *)
(***************************************************************************)
C8_CountsMatchRemoved ==
    (cpc = "returned" /\ answer \in Yes) =>
        /\ cresult[1] = Cardinality(GoneFiles)
        /\ cresult[2] = SumSizes(GoneFiles)

(***************************************************************************)
(* C10: shutil.rmtree is called on a subdirectory only after the loop at   *)
(* line 124 has been through every file of its subtree, and a file that    *)
(* loop deleted has been counted; a subdirectory that still holds a file   *)
(* stays, and the walk goes on: at return every file of the temp locations *)
(* has been visited and every subdirectory handed to rmtree.               *)
(***************************************************************************)
C10_BottomUp ==
    /\ \A d \in rmtried :
          \A f \in DOMAIN tfs0.files : InSubtree(f, d) => f \in visited
    /\ counted \subseteq GoneFiles
    /\ \A f \in GoneFiles :
          (\A d \in rmtried : ~InSubtree(f, d)) => f \in counted
    /\ \A d \in rmtried :
          (\E f \in DOMAIN tfiles : InSubtree(f, d)) => d \in tdirs
    /\ (cpc = "returned" /\ answer \in Yes /\ system \in DOMAIN TEMP_DIRS) =>
          /\ DOMAIN tfs0.files \subseteq visited
          /\ { d \in tfs0.dirs : Len(d) > 1 } \subseteq rmtried

\* a subdirectory kept because its file could not be deleted, and a file of
\* the second location deleted and counted after that
C10_Witness ==
    /\ cpc = "returned"
    /\ \E d \in rmtried : d \in tdirs /\ FileOf(d) \in DOMAIN tfiles
    /\ \E f \in counted : f[1] = Locations(system)[2]

====
